---- MODULE Spec2Model ----
(***************************************************************************)
(* Model of terraform-provider-modtm: the provider's endpoint resolver     *)
(* (provider.go), the modtm_telemetry resource's lifecycle handlers and    *)
(* the bounded delivery of one telemetry event per operation              *)
(* (telemetry_resource.go).                                                *)
(***************************************************************************)
EXTENDS Integers, Sequences, FiniteSets, TLC

VARIABLES
    providerModel,  \* ModuleTelemetryProviderModel: the provider block as decoded
    endpointEnv,    \* os.Getenv("MODTM_ENDPOINT") at Configure time
    blobBody,       \* body the GET of endpointBlobUrl returned ("" while none has)
    timed,          \* TRUE when the behaviour measures time (Tick runs)
    instances,      \* the modtm_telemetry instances the configuration declares
    budget,         \* lifecycle operations the host starts at most
    plans,          \* the configurations of the resource the user may apply
    lookup,         \* the last answer of the module_source data source or functions
    modulesFile,    \* <data dir>/modules/modules.json as it is on disk
    tfDataDir,      \* os.LookupEnv("TF_DATA_DIR")
    configured,     \* ModuleTelemetryProvider.Configure has run
    providerCfg,    \* providerConfig handed to the resource (enabled, defaultEndpoint)
    once,           \* sync.Once of endpointFunc: "fresh", "running", "done"
    endpoint,       \* the closure variable endpointFunc memoizes
    blobG,          \* the goroutine of readEndpointFromBlob
    nOps,           \* lifecycle operations started so far
    pc,             \* per resource: where its current handler stands
    cur,            \* per resource: the current (or last finished) operation
    tfstate,        \* per resource: the Terraform state of the instance
    postG,          \* goroutines started by sendPostRequest
    urlsHit,        \* URLs for which a POST was attempted
    errors,         \* entries written through errorLog, in order
    trail,          \* per resource: the events of the operations started, in order
    nGets,          \* http.Get(endpointBlobUrl) calls
    nBody,          \* executions of the function passed to once.Do
    timer           \* per resource: time spent in the select it is blocked in

vars == <<providerModel, endpointEnv, blobBody, timed, instances, budget, plans, lookup, modulesFile, tfDataDir, configured, providerCfg,
          once, endpoint, blobG, nOps, pc, cur, tfstate, postG, urlsHit, errors,
          trail, nGets, nBody, timer>>

-----------------------------------------------------------------------------
(* Bounds and program constants *)

\* operations the host starts on a single instance, one after the other
MaxOps == 3

\* operations the host starts on two instances, possibly at the same time
MaxParOps == 2

\* operations the host starts when the configurations differ in their tags
\* or module paths
MaxVariedOps == 2

\* segments of the module paths modulePathToKey is called with
MaxSegments == 4

\* 5 * time.Second, the timer both selects race against
Timeout == 5

Resources == {"r1", "r2"}

ProviderUrl == "https://provider"
EnvUrl == "https://env"
ResourceUrl == "https://resource"
DefaultUrl == "https://default"
\* a document that ends in a line break: url.Parse rejects control characters
BrokenUrl == "https://default\n"

-----------------------------------------------------------------------------
(* terraform-plugin-framework values: types.String, types.Bool, types.Map *)

NullString == [k |-> "null", v |-> ""]
UnknownString == [k |-> "unknown", v |-> ""]
StringValue(s) == [k |-> "known", v |-> s]
IsNull(x) == x.k = "null"
IsUnknown(x) == x.k = "unknown"
\* String() renders a known value as a quoted Go literal, null and unknown
\* as the bare words <null> and <unknown>
String(x) ==
    CASE x.k = "known" -> [quoted |-> TRUE, text |-> x.v]
      [] x.k = "null" -> [quoted |-> FALSE, text |-> "<null>"]
      [] OTHER -> [quoted |-> FALSE, text |-> "<unknown>"]

\* strconv.Unquote: succeeds on a quoted literal only
Unquote(t) == [err |-> ~t.quoted, s |-> IF t.quoted THEN t.text ELSE ""]

\* the rendered text as a Go string
Raw(t) == IF t.quoted THEN "\"" \o t.text \o "\"" ELSE t.text

\* variant: the value is rendered with String(), as the id and the tags are
ValueString_rendered(x) == Raw(String(x))

\* ValueString() is "" for null and unknown
ValueString(x) == IF x.k = "known" THEN x.v ELSE ""

\* the pattern "Unquote(x.String()), and x.String() itself when that fails"
UnquoteOrRaw(x) == IF Unquote(String(x)).err THEN Raw(String(x)) ELSE Unquote(String(x)).s

NullBool == [k |-> "null", b |-> FALSE]
BoolValue(b) == [k |-> "known", b |-> b]

NullMap == [k |-> "null", m |-> <<>>]
MapValue(m) == [k |-> "known", m |-> m]
Elements(x) == IF x.k = "known" THEN x.m ELSE <<>>

NullList == [k |-> "null", l |-> <<>>]
ListValue(l) == [k |-> "known", l |-> l]

NullPath == [k |-> "null", v |-> <<>>]
PathValue(p) == [k |-> "known", v |-> p]

-----------------------------------------------------------------------------
(* The module manifest and its lookup *)

\* A Go string that names a path or a manifest key is modelled by the list
\* strings.Split(s, "/") gives: ".terraform/modules/kv" is
\* <<".terraform", "modules", "kv">>, the key "kv" is <<"kv">>, and "" is <<"">>.

\* os.LookupEnv: a variable is unset, or set to a value (which may be "")
UnsetEnv == [set |-> FALSE, v |-> <<"">>]
SetEnv(v) == [set |-> TRUE, v |-> v]

\* variant: TF_DATA_DIR is not looked up
terraformDataDir_fixed == <<".terraform">>

\* terraformDataDir: .terraform unless TF_DATA_DIR is set
terraformDataDir == IF tfDataDir.set THEN tfDataDir.v ELSE <<".terraform">>

\* filepath.Join(dir, "modules") for a dir that is clean: an empty dir is left out
JoinModules(dir) == IF dir = <<"">> THEN <<"modules">> ELSE dir \o <<"modules">>

\* $TF_DATA_DIR/modules/modules.json as Terraform wrote it: the root module,
\* a registry submodule, a registry module and its two local submodules
ModulesJson ==
    <<[Key |-> <<"">>, Source |-> "", Version |-> "", Dir |-> <<".">>],
      [Key |-> <<"keys">>,
       Source |-> "registry.terraform.io/Azure/avm-res-keyvault-vault/azurerm//modules/key",
       Version |-> "0.6.1",
       Dir |-> <<".terraform", "modules", "keys", "modules", "key">>],
      [Key |-> <<"kv">>,
       Source |-> "registry.terraform.io/Azure/avm-res-keyvault-vault/azurerm",
       Version |-> "0.6.1",
       Dir |-> <<".terraform", "modules", "kv">>],
      [Key |-> <<"kv.keys">>, Source |-> "./modules/key", Version |-> "",
       Dir |-> <<".terraform", "modules", "kv", "modules", "key">>],
      [Key |-> <<"kv.secrets">>, Source |-> "./modules/secret", Version |-> "",
       Dir |-> <<".terraform", "modules", "kv", "modules", "secret">>]>>

\* the manifest on disk: no file, a file that is not JSON, or a document
NoFile == [exists |-> FALSE, json |-> FALSE, Modules |-> <<>>]
BrokenFile == [exists |-> TRUE, json |-> FALSE, Modules |-> <<>>]
WrittenFile(modules) == [exists |-> TRUE, json |-> TRUE, Modules |-> modules]

\* json.Unmarshal into modulesJsonModel: the struct has the fields Key, Source
\* and Version, so an entry's Dir is dropped
modulesJsonModel ==
    [i \in 1..Len(modulesFile.Modules) |->
        [Key |-> modulesFile.Modules[i].Key, Source |-> modulesFile.Modules[i].Source,
         Version |-> modulesFile.Modules[i].Version]]

\* the loop of modulePathToKey from segment i on: the segment is returned once
\* the segments of modulesDirList are used up, a differing segment ends the loop
RECURSIVE keyFrom(_, _, _)
keyFrom(modulesDirList, modulePath, i) ==
    IF i > Len(modulePath) THEN [err |-> TRUE, key |-> <<"">>]
    ELSE IF i > Len(modulesDirList) THEN [err |-> FALSE, key |-> <<modulePath[i]>>]
    ELSE IF modulesDirList[i] # modulePath[i] THEN [err |-> TRUE, key |-> <<"">>]
    ELSE keyFrom(modulesDirList, modulePath, i + 1)

\* modulePathToKey: the first segment after the segments of <data dir>/modules
modulePathToKey(modulePath) == keyFrom(JoinModules(terraformDataDir), modulePath, 1)

\* parseModulesJson: the first entry whose Key is the key
parseModulesJson(key) ==
    LET hits == {i \in 1..Len(modulesJsonModel) : modulesJsonModel[i].Key = key}
        none == [Key |-> <<"">>, Source |-> "", Version |-> ""]
    IN  IF ~modulesFile.exists THEN [err |-> TRUE, module |-> none]
        ELSE IF ~modulesFile.json THEN [err |-> TRUE, module |-> none]
        ELSE IF hits = {} THEN [err |-> TRUE, module |-> none]
        ELSE [err |-> FALSE,
              module |-> modulesJsonModel[CHOOSE i \in hits : \A j \in hits : i <= j]]

\* variant: the attributes are not cleared before the lookup
updateModuleSourceAndVersion_keep(data) ==
    LET found == IF IsNull(data.ModulePath) \/ IsUnknown(data.ModulePath) THEN FALSE
                 ELSE IF modulePathToKey(data.ModulePath.v).err THEN FALSE
                 ELSE ~parseModulesJson(modulePathToKey(data.ModulePath.v).key).err
        module == parseModulesJson(modulePathToKey(data.ModulePath.v).key).module
    IN  IF found
        THEN [data EXCEPT !.ModuleSource = StringValue(module.Source),
                          !.ModuleVersion = StringValue(module.Version)]
        ELSE data

\* variant: a failed lookup leaves both attributes as empty strings
updateModuleSourceAndVersion_empty(data) ==
    LET found == IF IsNull(data.ModulePath) \/ IsUnknown(data.ModulePath) THEN FALSE
                 ELSE IF modulePathToKey(data.ModulePath.v).err THEN FALSE
                 ELSE ~parseModulesJson(modulePathToKey(data.ModulePath.v).key).err
        module == parseModulesJson(modulePathToKey(data.ModulePath.v).key).module
    IN  IF found
        THEN [data EXCEPT !.ModuleSource = StringValue(module.Source),
                          !.ModuleVersion = StringValue(module.Version)]
        ELSE [data EXCEPT !.ModuleSource = StringValue(""), !.ModuleVersion = StringValue("")]

\* updateModuleSourceAndVersion
updateModuleSourceAndVersion(data) ==
    LET cleared == [data EXCEPT !.ModuleSource = NullString, !.ModuleVersion = NullString]
    IN  IF ~IsNull(data.ModulePath) /\ ~IsUnknown(data.ModulePath)
        THEN LET k == modulePathToKey(data.ModulePath.v)
             IN  IF k.err THEN cleared
                 ELSE LET p == parseModulesJson(k.key)
                      IN  IF p.err THEN cleared
                          ELSE [cleared EXCEPT
                                  !.ModuleSource = StringValue(p.module.Source),
                                  !.ModuleVersion = StringValue(p.module.Version)]
        ELSE cleared

\* withModuleSourceAndVersion (data source and functions): the module path
\* itself is handed to parseModulesJson
withModuleSourceAndVersion(data) ==
    LET cleared == [data EXCEPT !.ModuleSource = NullString, !.ModuleVersion = NullString]
    IN  IF ~IsNull(data.ModulePath) /\ ~IsUnknown(data.ModulePath)
        THEN LET p == parseModulesJson(data.ModulePath.v)
             IN  IF p.err THEN cleared
                 ELSE [cleared EXCEPT
                         !.ModuleSource = StringValue(p.module.Source),
                         !.ModuleVersion = StringValue(p.module.Version)]
        ELSE cleared

-----------------------------------------------------------------------------
(* Provider configuration (provider.go) *)

\* variant: the provider block's enabled is not read
configEnabled_ignored(data) == TRUE

\* enabled := true unless the provider block sets it
configEnabled(data) == IF data.Enabled.k = "null" THEN TRUE ELSE data.Enabled.b

\* variant: the environment variable is left out of the test
configDefaultEndpoint_noEnv(data, env) == IsNull(data.Endpoint)

\* c.defaultEndpoint = data.Endpoint.IsNull() && endpointEnv == ""
configDefaultEndpoint(data, env) == IsNull(data.Endpoint) /\ env = ""

\* expressions module_source_regex may list
AzureRegistryRegex == "^registry\\.terraform\\.io/Azure/"
LocalModuleRegex == "^\\./modules/"
AnyRegex == ".*"

\* the module sources of the manifest, and "" for a module without source
ModuleSources == {ModulesJson[i].Source : i \in 1..Len(ModulesJson)}

\* regexp.MustCompile(expr).MatchString(s), for s among the module sources
MatchString(expr, s) ==
    CASE expr = AnyRegex -> TRUE
      [] expr = AzureRegistryRegex ->
            s \in {"registry.terraform.io/Azure/avm-res-keyvault-vault/azurerm//modules/key",
                   "registry.terraform.io/Azure/avm-res-keyvault-vault/azurerm"}
      [] expr = LocalModuleRegex -> s \in {"./modules/key", "./modules/secret"}
      [] OTHER -> FALSE

\* Configure: the listed expressions, or .* when there is none
configModuleSourceRegex(data) ==
    IF ~IsNull(data.ModuleSourceRegex) /\ Len(data.ModuleSourceRegex.l) > 0
    THEN data.ModuleSourceRegex.l
    ELSE <<AnyRegex>>

readEndpointFromProviderBlock(data) == UnquoteOrRaw(data.Endpoint)

\* which branch the function passed to once.Do takes
\* variant: an empty endpoint in the provider block counts as none
endpointSource_skipEmpty(data, env) ==
    IF ~IsNull(data.Endpoint) /\ data.Endpoint.v # "" THEN "block"
    ELSE IF env # "" THEN "env"
    ELSE "blob"

endpointSource(data, env) ==
    IF ~IsNull(data.Endpoint) THEN "block"
    ELSE IF env # "" THEN "env"
    ELSE "blob"

\* variant: a Once that runs the function again after it has finished
onceDo_again(o) == IF o = "running" THEN "wait" ELSE "run"

\* variant: a caller that finds the function running does not wait for it
onceDo_noWait(o) == IF o = "fresh" THEN "run" ELSE "return"

\* sync.Once.Do seen by a caller: run the function, wait for the caller
\* that runs it, or return at once
onceDo(o) ==
    CASE o = "fresh" -> "run"
      [] o = "running" -> "wait"
      [] OTHER -> "return"

\* variant: a built-in URL stands in for the body read
blobResult_builtin(branch, body) == IF branch = "c" THEN DefaultUrl ELSE ""

\* variant: a failed fetch falls back to a built-in URL
blobResult_fallback(branch, body) == IF branch = "c" THEN body ELSE DefaultUrl

\* what readEndpointFromBlob returns for each case of its select
blobResult(branch, body) == IF branch = "c" THEN body ELSE ""

-----------------------------------------------------------------------------
(* The resource model and sendTags (telemetry_resource.go) *)

ZeroModel ==
    [Id |-> NullString, Tags |-> NullMap, Endpoint |-> NullString,
     ModulePath |-> NullPath, ModuleVersion |-> NullString, ModuleSource |-> NullString]

readEndpoint(resource) == UnquoteOrRaw(resource.Endpoint)

readResourceId(resource) == UnquoteOrRaw(resource.Id)

readTags(resource) ==
    [k \in DOMAIN Elements(resource.Tags) |-> UnquoteOrRaw(Elements(resource.Tags)[k])]

\* variant: the user's tags are copied over the four keys
sendTagsPayload_tagsLast(resource, event) ==
    readTags(resource)
    @@ ("source" :> ValueString(resource.ModuleSource))
    @@ ("version" :> ValueString(resource.ModuleVersion))
    @@ ("event" :> event)
    @@ ("resource_id" :> readResourceId(resource))

\* the map sendTags hands to sendPostRequest: the four keys are assigned
\* after readTags, so they replace a user tag of the same name
sendTagsPayload(resource, event) ==
    ("source" :> ValueString(resource.ModuleSource))
    @@ ("version" :> ValueString(resource.ModuleVersion))
    @@ ("event" :> event)
    @@ ("resource_id" :> readResourceId(resource))
    @@ readTags(resource)

\* variant: a resource endpoint always overrides the provider's
usesProviderEndpoint_resourceFirst(defaultEndpointOnProviderBlock, resource) ==
    IsNull(resource.Endpoint)

\* variant: the resource endpoint is never looked at
usesProviderEndpoint_always(defaultEndpointOnProviderBlock, resource) == TRUE

\* !r.defaultEndpointOnProviderBlock || resource.Endpoint.IsNull()
usesProviderEndpoint(defaultEndpointOnProviderBlock, resource) ==
    ~defaultEndpointOnProviderBlock \/ IsNull(resource.Endpoint)

\* http.NewRequest fails when the URL does not parse
NewRequestFails(url) == url = BrokenUrl

\* variant: the event name is read before sendTags has set it
timeoutLog_noEvent(event) == [kind |-> "timeout", event |-> ""]

\* the text of the entry sendPostRequest logs when its timer fires
timeoutLog(event) == [kind |-> "timeout", event |-> event]

\* the entry the goroutine logs when client.Do fails
doErrorLog(event) == [kind |-> "error", event |-> event]

\* the entry logged when http.NewRequest fails
composeLog(event) == [kind |-> "compose", event |-> event]

-----------------------------------------------------------------------------
(* What the host hands to the handlers *)

TagChoices == {MapValue("team" :> StringValue("a"))}

EndpointChoices == {NullString, StringValue(ResourceUrl), StringValue("")}

PathChoices == {PathValue(<<".terraform", "modules", "kv">>)}

\* a planned resource: computed attributes are unknown until the handler sets them
Plans ==
    {[Id |-> UnknownString, Tags |-> t, Endpoint |-> e, ModulePath |-> p,
      ModuleVersion |-> UnknownString, ModuleSource |-> UnknownString] :
        t \in TagChoices, e \in EndpointChoices, p \in PathChoices}

\* tags a user may write: plain ones, ones that use the name of a key sendTags
\* sets itself, and one with a null value
TagVariants ==
    {MapValue("team" :> StringValue("a")),
     MapValue("team" :> StringValue("b")),
     MapValue(("team" :> StringValue("a")) @@ ("event" :> StringValue("mine"))),
     MapValue(("team" :> StringValue("a")) @@ ("source" :> StringValue("mine"))),
     MapValue(("team" :> StringValue("a")) @@ ("version" :> StringValue("mine"))),
     MapValue(("team" :> StringValue("a")) @@ ("resource_id" :> StringValue("mine"))),
     MapValue("team" :> NullString)}

\* configurations that differ in their tags
TagPlans ==
    {[Id |-> UnknownString, Tags |-> t, Endpoint |-> NullString, ModulePath |-> p,
      ModuleVersion |-> UnknownString, ModuleSource |-> UnknownString] :
        t \in TagVariants, p \in PathChoices}

\* module paths a user may write: the Dir of each kind of manifest entry, a
\* directory the manifest does not list, one outside the modules directory
ModulePaths ==
    {<<".terraform", "modules", "kv">>,
     <<".terraform", "modules", "kv", "modules", "key">>,
     <<".terraform", "modules", "keys", "modules", "key">>,
     <<".terraform", "modules", "nonexistent">>,
     <<"elsewhere">>}

\* configurations that differ in module_path, which is optional
PathPlans ==
    {[Id |-> UnknownString, Tags |-> t, Endpoint |-> NullString, ModulePath |-> p,
      ModuleVersion |-> UnknownString, ModuleSource |-> UnknownString] :
        t \in TagChoices, p \in {NullPath} \cup {PathValue(m) : m \in ModulePaths}}

\* mapValidator.ValidateMap: the keys it refuses
reservedKeys == {"event"}

\* variant: the validator is not attached to tags
ValidateMap_none(configValue) == {}

\* mapValidator.ValidateMap: one error diagnostic when a key is reserved
ValidateMap(configValue) ==
    IF DOMAIN Elements(configValue) \cap reservedKeys # {} THEN {"validate"} ELSE {}

\* variant: the id attribute has no plan modifier
UseStateForUnknown_missing(planned, prior) == planned

\* stringplanmodifier.UseStateForUnknown on id: an unknown planned value of
\* an existing instance takes the value in the prior state
UseStateForUnknown(planned, prior) ==
    IF IsUnknown(planned) /\ ~IsNull(prior) THEN prior ELSE planned

\* uuid.NewString(): a value no earlier operation produced
NewId(n) == "uuid-" \o ToString(n)

NotWritten == [set |-> FALSE, data |-> ZeroModel]
Written(d) == [set |-> TRUE, data |-> d]
Absent == [present |-> FALSE, data |-> ZeroModel]
Present(d) == [present |-> TRUE, data |-> d]

NoOp ==
    [op |-> 0, event |-> "none", ran |-> FALSE, data |-> ZeroModel, diags |-> {},
     payload |-> <<>>,
     called |-> FALSE, waited |-> FALSE, got |-> FALSE, ep |-> "", req |-> "", nreq |-> 0,
     outcome |-> "none", wrote |-> NotWritten, delay |-> 0]

NewOp(n, event, data, diags) ==
    [NoOp EXCEPT !.op = n, !.event = event, !.ran = TRUE, !.data = data,
                 !.diags = diags]

-----------------------------------------------------------------------------
(* The end of a handler *)

\* what the handler hands to resp.State.Set after sendTags (Delete sets nothing)
stateSet(c) == IF c.event = "delete" THEN NotWritten ELSE Written(c.data)

\* the state the host keeps: the state set, or none after a Delete, unless the
\* response carries an error diagnostic
hostState(old, c) ==
    IF c.diags # {} THEN old
    ELSE IF c.event = "delete" THEN Absent
    ELSE Present(c.data)

\* variant: a failed delivery is reported to the host
deliveryDiags_onFailure(outcome) ==
    IF outcome \in {"timeout", "error", "compose"} THEN {"telemetry"} ELSE {}

\* sendPostRequest and sendTags return nothing: whatever the outcome of the
\* delivery, the handler gets no diagnostic from it
deliveryDiags(outcome) == {}

\* sendTags has returned: resp.State.Set(ctx, &data) and return
Finish(r, c) ==
    LET d == [c EXCEPT !.diags = @ \cup deliveryDiags(c.outcome)]
    IN  /\ pc' = [pc EXCEPT ![r] = "idle"]
        /\ cur' = [cur EXCEPT ![r] = [d EXCEPT !.wrote = stateSet(d)]]
        /\ tfstate' = [tfstate EXCEPT ![r] = hostState(@, d)]

-----------------------------------------------------------------------------
(* sendPostRequest up to its select, as the step of the calling handler *)

Stay(c, where) == [cur |-> c, pc |-> where, log |-> <<>>, go |-> {}, hit |-> {}]

\* variant: a second request is started for the same event
sendPostRequest_again(r, c, url) ==
    IF NewRequestFails(url)
    THEN [cur |-> [c EXCEPT !.outcome = "compose"], pc |-> "return",
          log |-> <<composeLog(c.payload["event"]) @@ [res |-> r]>>,
          go |-> {}, hit |-> {}]
    ELSE [cur |-> [c EXCEPT !.req = url, !.nreq = @ + 2], pc |-> "postSelect",
          log |-> <<>>,
          go |-> {[op |-> c.op, res |-> r, event |-> c.payload["event"], st |-> "inflight"]},
          hit |-> {url}]

\* sendPostRequest(ctx, url, tags): compose the request and start the goroutine
sendPostRequest(r, c, url) ==
    IF NewRequestFails(url)
    THEN [cur |-> [c EXCEPT !.outcome = "compose"], pc |-> "return",
          log |-> <<composeLog(c.payload["event"]) @@ [res |-> r]>>,
          go |-> {}, hit |-> {}]
    ELSE [cur |-> [c EXCEPT !.req = url, !.nreq = @ + 1], pc |-> "postSelect",
          log |-> <<>>,
          go |-> {[op |-> c.op, res |-> r, event |-> c.payload["event"], st |-> "inflight"]},
          hit |-> {url}]

\* if endpoint != "" { sendPostRequest(ctx, endpoint, tags) }
deliver(r, c, e) ==
    IF e # "" THEN sendPostRequest(r, [c EXCEPT !.ep = e], e)
    ELSE Stay([c EXCEPT !.ep = e], "return")

\* the handler's step up to the point where it blocks, or to its end
Local(r, res) ==
    /\ IF res.pc = "return"
       THEN Finish(r, res.cur)
       ELSE /\ cur' = [cur EXCEPT ![r] = res.cur]
            /\ pc' = [pc EXCEPT ![r] = res.pc]
            /\ tfstate' = tfstate
    /\ errors' = errors \o res.log
    /\ postG' = postG \cup res.go
    /\ urlsHit' = urlsHit \cup res.hit
    /\ timer' = [timer EXCEPT ![r] = 0]

\* r.providerEndpointFunc(): once.Do(...) and return endpoint
EndpointFunc(r, c) ==
    CASE onceDo(once) = "return" ->
            /\ Local(r, deliver(r, [c EXCEPT !.got = TRUE], endpoint))
            /\ UNCHANGED <<once, endpoint, blobG, nGets, nBody>>
      [] onceDo(once) = "wait" ->
            /\ Local(r, Stay([c EXCEPT !.waited = TRUE], "onceWait"))
            /\ UNCHANGED <<once, endpoint, blobG, nGets, nBody>>
      [] OTHER ->
            /\ nBody' = nBody + 1
            /\ IF endpointSource(providerModel, endpointEnv) = "blob"
               THEN /\ once' = "running"
                    /\ blobG' = "inflight"
                    /\ nGets' = nGets + 1
                    /\ endpoint' = endpoint
                    /\ Local(r, Stay(c, "fetchSelect"))
               ELSE /\ once' = "done"
                    /\ endpoint' = IF endpointSource(providerModel, endpointEnv) = "block"
                                   THEN readEndpointFromProviderBlock(providerModel)
                                   ELSE endpointEnv
                    /\ Local(r, deliver(r, [c EXCEPT !.got = TRUE], endpoint'))
                    /\ UNCHANGED <<blobG, nGets>>

\* variant: the endpoint is resolved before anything else is looked at
sendTags_eager(r, c) ==
    EndpointFunc(r, [c EXCEPT !.payload = sendTagsPayload(c.data, c.event),
                              !.called = TRUE])

\* resource.sendTags(ctx, r, event)
sendTags(r, c) ==
    IF ~providerCfg.enabled
    THEN /\ Local(r, Stay(c, "return"))
         /\ UNCHANGED <<once, endpoint, blobG, nGets, nBody>>
    ELSE LET c1 == [c EXCEPT !.payload = sendTagsPayload(c.data, c.event)]
         IN  IF usesProviderEndpoint(providerCfg.defaultEndpoint, c.data)
             THEN EndpointFunc(r, [c1 EXCEPT !.called = TRUE])
             ELSE /\ Local(r, deliver(r, c1, readEndpoint(c.data)))
                  /\ UNCHANGED <<once, endpoint, blobG, nGets, nBody>>

\* a handler that got past decoding: count the operation and run sendTags
Start(r, event, data, diags) ==
    /\ nOps' = nOps + 1
    /\ trail' = [trail EXCEPT ![r] = Append(@, event)]
    /\ sendTags(r, NewOp(nOps + 1, event, data, diags))
    /\ UNCHANGED <<providerModel, endpointEnv, blobBody, timed, instances, budget, plans, lookup, modulesFile, tfDataDir, configured, providerCfg>>

\* a handler that returns on the error diagnostic of decoding
Return(r, event) ==
    /\ nOps' = nOps + 1
    /\ trail' = [trail EXCEPT ![r] = Append(@, event)]
    /\ cur' = [cur EXCEPT ![r] =
                  [NewOp(nOps + 1, event, ZeroModel, {"decode"}) EXCEPT !.ran = FALSE]]
    /\ UNCHANGED <<providerModel, endpointEnv, blobBody, timed, instances, budget, plans, lookup, modulesFile, tfDataDir, configured,
                   providerCfg, once, endpoint, blobG, pc, tfstate, postG, urlsHit,
                   errors, nGets, nBody, timer>>

\* the host validates a configuration before it plans and applies it; one
\* with an error diagnostic reaches no handler
Refuse(r, event, plan) ==
    /\ nOps' = nOps + 1
    /\ cur' = [cur EXCEPT ![r] =
                  [NewOp(nOps + 1, event, plan, ValidateMap(plan.Tags)) EXCEPT !.ran = FALSE]]
    /\ UNCHANGED <<providerModel, endpointEnv, blobBody, timed, instances, budget, plans, lookup, modulesFile, tfDataDir, configured,
                   providerCfg, once, endpoint, blobG, pc, tfstate, postG, urlsHit,
                   errors, trail, nGets, nBody, timer>>

CanStart(r) == configured /\ pc[r] = "idle" /\ nOps < budget

-----------------------------------------------------------------------------
(* State after the plugin process has started, before Configure *)

ProviderModels ==
    {[Endpoint |-> e, Enabled |-> b, ModuleSourceRegex |-> NullList] :
        e \in {NullString, StringValue(ProviderUrl), StringValue("")},
        b \in {NullBool, BoolValue(TRUE), BoolValue(FALSE)}}

\* what the default-endpoint document may hold
BlobDocuments == {DefaultUrl, BrokenUrl}

\* ModuleSourceDataSourceModel
DataSourceModel(p) == [ModulePath |-> p, ModuleVersion |-> NullString, ModuleSource |-> NullString]

NoLookup == [via |-> "none", data |-> DataSourceModel(NullPath), result |-> "", diags |-> {}]

\* the plugin process before Configure, whatever its environment
InitProcess ==
    /\ endpointEnv \in {"", EnvUrl}
    /\ blobBody = ""
    /\ lookup = NoLookup
    /\ configured = FALSE
    /\ providerCfg = [enabled |-> FALSE, defaultEndpoint |-> FALSE, moduleSourceRegex |-> <<>>]
    /\ once = "fresh"
    /\ endpoint = ""
    /\ blobG = "none"
    /\ nOps = 0
    /\ pc = [r \in Resources |-> "idle"]
    /\ cur = [r \in Resources |-> NoOp]
    /\ tfstate = [r \in Resources |-> Absent]
    /\ postG = {}
    /\ urlsHit = {}
    /\ errors = <<>>
    /\ trail = [r \in Resources |-> <<>>]
    /\ nGets = 0
    /\ nBody = 0
    /\ timer = [r \in Resources |-> 0]

\* any provider block, the manifest as terraform init wrote it, TF_DATA_DIR unset
InitCommon ==
    /\ providerModel \in ProviderModels
    /\ modulesFile = WrittenFile(ModulesJson)
    /\ tfDataDir = UnsetEnv
    /\ InitProcess

\* one instance, its operations one after the other
Init ==
    /\ InitCommon
    /\ timed = FALSE
    /\ instances = {"r1"}
    /\ budget = MaxOps
    /\ plans = Plans

-----------------------------------------------------------------------------
(* Actions *)

\* ModuleTelemetryProvider.Configure and TelemetryResource.Configure
Configure ==
    /\ ~configured
    /\ configured' = TRUE
    /\ providerCfg' = [enabled |-> configEnabled(providerModel),
                       moduleSourceRegex |-> configModuleSourceRegex(providerModel),
                       defaultEndpoint |-> configDefaultEndpoint(providerModel, endpointEnv)]
    /\ UNCHANGED <<providerModel, endpointEnv, blobBody, timed, instances, budget, plans, lookup, modulesFile, tfDataDir, once, endpoint,
                   blobG, nOps, pc, cur, tfstate, postG, urlsHit, errors, trail,
                   nGets, nBody, timer>>

\* TelemetryResource.Create
Create(r) ==
    /\ CanStart(r)
    /\ ~tfstate[r].present
    /\ \/ \E plan \in plans :
            IF ValidateMap(plan.Tags) # {} THEN Refuse(r, "create", plan)
            ELSE Start(r, "create",
                       [updateModuleSourceAndVersion(plan) EXCEPT
                           !.Id = StringValue(NewId(nOps + 1))], {})
       \/ Return(r, "create")

\* TelemetryResource.Read: a decoding error does not end the handler
Read(r) ==
    /\ CanStart(r)
    /\ tfstate[r].present
    /\ \/ Start(r, "read", updateModuleSourceAndVersion(tfstate[r].data), {})
       \/ Start(r, "read", updateModuleSourceAndVersion(ZeroModel), {"decode"})

\* TelemetryResource.Update: the planned id is the id in state (UseStateForUnknown)
Update(r) ==
    /\ CanStart(r)
    /\ tfstate[r].present
    /\ \/ \E plan \in plans :
            IF ValidateMap(plan.Tags) # {} THEN Refuse(r, "update", plan)
            ELSE Start(r, "update",
                       updateModuleSourceAndVersion(
                           [plan EXCEPT !.Id = UseStateForUnknown(@, tfstate[r].data.Id)]), {})
       \/ Return(r, "update")

\* TelemetryResource.Delete
Delete(r) ==
    /\ CanStart(r)
    /\ tfstate[r].present
    /\ \/ Start(r, "delete", tfstate[r].data, {})
       \/ Return(r, "delete")

\* a caller blocked in once.Do returns when the function has finished
OnceWake(r) ==
    /\ pc[r] = "onceWait"
    /\ once = "done"
    /\ Local(r, deliver(r, [cur[r] EXCEPT !.got = TRUE], endpoint))
    /\ UNCHANGED <<providerModel, endpointEnv, blobBody, timed, instances, budget, plans, lookup, modulesFile, tfDataDir, configured,
                   providerCfg, once, endpoint, blobG, nOps, trail, nGets, nBody>>

\* the goroutine of readEndpointFromBlob gets a body, or an error, and sends on
\* c or errChan; the send is received if the caller is still in its select
BlobRespond ==
    /\ blobG = "inflight"
    /\ \E branch \in {"c", "errChan"}, body \in BlobDocuments :
          /\ branch = "errChan" => body = DefaultUrl
          /\ blobBody' = IF branch = "c" THEN body ELSE blobBody
          /\ \/ \E r \in Resources :
                   /\ pc[r] = "fetchSelect"
                   /\ blobG' = IF branch = "c" THEN "sentC" ELSE "sentErr"
                   /\ once' = "done"
                   /\ endpoint' = blobResult(branch, body)
                   /\ Local(r, deliver(r, [cur[r] EXCEPT !.got = TRUE], endpoint'))
             \/ /\ \A r \in Resources : pc[r] # "fetchSelect"
                /\ blobG' = IF branch = "c" THEN "blockedC" ELSE "blockedErr"
                /\ UNCHANGED <<once, endpoint, pc, cur, tfstate, errors, postG,
                               urlsHit, timer>>
    /\ UNCHANGED <<providerModel, endpointEnv, timed, instances, budget, plans, lookup, modulesFile, tfDataDir, configured,
                   providerCfg, nOps,
                   trail, nGets, nBody>>

\* case <-time.After(5 * time.Second) of readEndpointFromBlob
BlobTimeout(r) ==
    /\ pc[r] = "fetchSelect"
    /\ timed => timer[r] = Timeout
    /\ once' = "done"
    /\ endpoint' = blobResult("timeout", "")
    /\ Local(r, deliver(r, [cur[r] EXCEPT !.got = TRUE], endpoint'))
    /\ UNCHANGED <<providerModel, endpointEnv, blobBody, timed, instances, budget, plans, lookup, modulesFile, tfDataDir, configured,
                   providerCfg, blobG, nOps, trail, nGets, nBody>>

\* the goroutine of sendPostRequest gets a response (of any status) or an error
\* from client.Do, logs the error, and sends on c or errChan
PostRespond(g) ==
    /\ g \in postG
    /\ g.st = "inflight"
    /\ \E branch \in {"c", "errChan"} :
          /\ errors' = IF branch = "errChan"
                       THEN Append(errors, doErrorLog(g.event) @@ [res |-> g.res])
                       ELSE errors
          /\ \/ /\ pc[g.res] = "postSelect"
                /\ cur[g.res].op = g.op
                /\ postG' = postG \ {g}
                /\ Finish(g.res, [cur[g.res] EXCEPT !.outcome =
                                    IF branch = "c" THEN "response" ELSE "error"])
             \/ /\ ~(pc[g.res] = "postSelect" /\ cur[g.res].op = g.op)
                /\ postG' = (postG \ {g}) \cup
                      {[g EXCEPT !.st = IF branch = "c" THEN "blockedC" ELSE "blockedErr"]}
                /\ UNCHANGED <<pc, cur, tfstate>>
    /\ UNCHANGED <<providerModel, endpointEnv, blobBody, timed, instances, budget, plans, lookup, modulesFile, tfDataDir, configured,
                   providerCfg, once, endpoint, blobG, nOps, urlsHit, trail, nGets,
                   nBody, timer>>

\* case <-time.After(5 * time.Second) of sendPostRequest
PostTimeout(r) ==
    /\ pc[r] = "postSelect"
    /\ timed => timer[r] = Timeout
    /\ errors' = Append(errors, timeoutLog(cur[r].payload["event"]) @@ [res |-> r])
    /\ Finish(r, [cur[r] EXCEPT !.outcome = "timeout"])
    /\ UNCHANGED <<providerModel, endpointEnv, blobBody, timed, instances, budget, plans, lookup, modulesFile, tfDataDir, configured,
                   providerCfg, once, endpoint, blobG, nOps, postG, urlsHit, trail,
                   nGets, nBody, timer>>

Blocked(r) == pc[r] \in {"fetchSelect", "postSelect", "onceWait"}
InSelect(r) == pc[r] \in {"fetchSelect", "postSelect"}

\* one second passes: no timer is left behind its deadline
Tick ==
    /\ timed
    /\ \E r \in Resources : Blocked(r)
    /\ \A r \in Resources : InSelect(r) => timer[r] < Timeout
    /\ timer' = [r \in Resources |-> IF InSelect(r) THEN timer[r] + 1 ELSE timer[r]]
    /\ cur' = [r \in Resources |->
                 IF Blocked(r) THEN [cur[r] EXCEPT !.delay = @ + 1] ELSE cur[r]]
    /\ UNCHANGED <<providerModel, endpointEnv, blobBody, timed, instances, budget, plans, lookup, modulesFile, tfDataDir, configured,
                   providerCfg, once, endpoint, blobG, nOps, pc, tfstate, postG,
                   urlsHit, errors, trail, nGets, nBody>>

Next ==
    \/ Configure
    \/ \E r \in instances : Create(r)
    \/ \E r \in instances : Read(r)
    \/ \E r \in instances : Update(r)
    \/ \E r \in instances : Delete(r)
    \/ BlobRespond
    \/ \E r \in instances : BlobTimeout(r)
    \/ \E g \in postG : PostRespond(g)
    \/ \E r \in instances : PostTimeout(r)

Spec == Init /\ [][Next]_vars

\* two instances of one provider, their operations in parallel
InitPar ==
    /\ InitCommon
    /\ timed = FALSE
    /\ instances = Resources
    /\ budget = MaxParOps
    /\ plans = Plans

NextPar == Next \/ \E r \in instances : OnceWake(r)

SpecPar == InitPar /\ [][NextPar]_vars

\* one instance, with time measured in seconds
InitTimed ==
    /\ InitCommon
    /\ timed = TRUE
    /\ instances = {"r1"}
    /\ budget = MaxOps
    /\ plans = Plans

NextTimed == Next \/ Tick

SpecTimed == InitTimed /\ [][NextTimed]_vars

\* one instance, configurations that differ in their tags
InitTags ==
    /\ InitCommon
    /\ timed = FALSE
    /\ instances = {"r1"}
    /\ budget = MaxVariedOps
    /\ plans = TagPlans

SpecTags == InitTags /\ [][Next]_vars

\* ModuleSourceDataSource.Read
DataSourceRead ==
    /\ nOps < budget
    /\ nOps' = nOps + 1
    /\ \/ \E m \in ModulePaths :
            lookup' = [via |-> "data",
                       data |-> withModuleSourceAndVersion(DataSourceModel(PathValue(m))),
                       result |-> "", diags |-> {}]
       \/ lookup' = [via |-> "data", data |-> DataSourceModel(NullPath),
                     result |-> "", diags |-> {"decode"}]
    /\ UNCHANGED <<providerModel, endpointEnv, blobBody, timed, instances, budget, plans, modulesFile, tfDataDir, configured,
                   providerCfg, once, endpoint, blobG, pc, cur, tfstate, postG,
                   urlsHit, errors, trail, nGets, nBody, timer>>

\* ModuleSourceFunction.Run
ModuleSourceRun ==
    /\ nOps < budget
    /\ nOps' = nOps + 1
    /\ \E m \in ModulePaths :
          LET model == withModuleSourceAndVersion(DataSourceModel(PathValue(m)))
          IN  lookup' = [via |-> "module_source", data |-> model,
                         result |-> ValueString(model.ModuleSource), diags |-> {}]
    /\ UNCHANGED <<providerModel, endpointEnv, blobBody, timed, instances, budget, plans, modulesFile, tfDataDir, configured,
                   providerCfg, once, endpoint, blobG, pc, cur, tfstate, postG,
                   urlsHit, errors, trail, nGets, nBody, timer>>

\* ModuleVersionFunction.Run
ModuleVersionRun ==
    /\ nOps < budget
    /\ nOps' = nOps + 1
    /\ \E m \in ModulePaths :
          LET model == withModuleSourceAndVersion(DataSourceModel(PathValue(m)))
          IN  lookup' = [via |-> "module_version", data |-> model,
                         result |-> ValueString(model.ModuleVersion), diags |-> {}]
    /\ UNCHANGED <<providerModel, endpointEnv, blobBody, timed, instances, budget, plans, modulesFile, tfDataDir, configured,
                   providerCfg, once, endpoint, blobG, pc, cur, tfstate, postG,
                   urlsHit, errors, trail, nGets, nBody, timer>>

\* one instance, configurations that differ in module_path, and the data
\* source and the functions next to it
InitModule ==
    /\ InitCommon
    /\ timed = FALSE
    /\ instances = {"r1"}
    /\ budget = MaxVariedOps
    /\ plans = PathPlans

NextModule == Next \/ DataSourceRead \/ ModuleSourceRun \/ ModuleVersionRun

SpecModule == InitModule /\ [][NextModule]_vars

\* the segments a module path or TF_DATA_DIR is made of; "" is what
\* strings.Split gives for an empty string and before a leading separator
Segments == {"", ".terraform", "modules", "abc123", "nested", "data"}

\* strings.Split(modulePath, "/") of the module paths up to MaxSegments segments
KeyPaths == UNION {[1..n -> Segments] : n \in 1..MaxSegments}

\* TF_DATA_DIR: unset, relative, absolute, the default spelled out, empty
DataDirs ==
    {UnsetEnv, SetEnv(<<"data">>), SetEnv(<<"", "data">>), SetEnv(<<".terraform">>),
     SetEnv(<<"">>)}

\* a call of modulePathToKey, the one call of its behaviour
ModulePathToKeyCall ==
    /\ lookup = NoLookup
    /\ nOps < budget
    /\ nOps' = nOps + 1
    /\ \E m \in KeyPaths :
          LET k == modulePathToKey(m)
          IN  lookup' = [via |-> "key", data |-> DataSourceModel(PathValue(m)),
                         result |-> k.key[1],
                         diags |-> IF k.err THEN {"could not find module key"} ELSE {}]
    /\ UNCHANGED <<providerModel, endpointEnv, blobBody, timed, instances, budget, plans, modulesFile, tfDataDir, configured,
                   providerCfg, once, endpoint, blobG, pc, cur, tfstate, postG,
                   urlsHit, errors, trail, nGets, nBody, timer>>

\* modulePathToKey on its own, under each TF_DATA_DIR
InitKey ==
    /\ providerModel = [Endpoint |-> NullString, Enabled |-> NullBool,
                        ModuleSourceRegex |-> NullList]
    /\ modulesFile = WrittenFile(ModulesJson)
    /\ tfDataDir \in DataDirs
    /\ InitProcess
    /\ timed = FALSE
    /\ instances = {"r1"}
    /\ budget = MaxVariedOps
    /\ plans = PathPlans

NextKey == ModulePathToKeyCall

SpecKey == InitKey /\ [][NextKey]_vars

\* provider blocks with and without module_source_regex
RegexProviderModels ==
    {[Endpoint |-> e, Enabled |-> NullBool, ModuleSourceRegex |-> l] :
        e \in {NullString, StringValue(ProviderUrl)},
        l \in {NullList, ListValue(<<LocalModuleRegex>>),
               ListValue(<<LocalModuleRegex, AzureRegistryRegex>>)}}

\* one instance, configurations that differ in module_path, under provider
\* blocks that list module_source_regex
InitRegex ==
    /\ providerModel \in RegexProviderModels
    /\ modulesFile = WrittenFile(ModulesJson)
    /\ tfDataDir = UnsetEnv
    /\ InitProcess
    /\ timed = FALSE
    /\ instances = {"r1"}
    /\ budget = MaxVariedOps
    /\ plans = PathPlans

SpecRegex == InitRegex /\ [][Next]_vars

\* what may be found at <data dir>/modules/modules.json
ManifestFiles == {NoFile, BrokenFile, WrittenFile(ModulesJson)}

\* between two operations the manifest is removed, damaged or written anew
\* (terraform init, terraform get, a cleaned working directory)
ManifestChange ==
    /\ \A r \in Resources : pc[r] = "idle"
    /\ modulesFile' \in ManifestFiles \ {modulesFile}
    /\ UNCHANGED <<providerModel, endpointEnv, blobBody, timed, instances, budget, plans, lookup, tfDataDir, configured,
                   providerCfg, once, endpoint, blobG, nOps, pc, cur, tfstate, postG,
                   urlsHit, errors, trail, nGets, nBody, timer>>

\* one instance, configurations that differ in module_path, over a manifest
\* that may be missing or damaged and changes between the operations
InitManifest ==
    /\ providerModel \in {m \in ProviderModels : m.Enabled = NullBool}
    /\ modulesFile \in ManifestFiles
    /\ tfDataDir = UnsetEnv
    /\ InitProcess
    /\ timed = FALSE
    /\ instances = {"r1"}
    /\ budget = MaxVariedOps
    /\ plans = PathPlans

NextManifest == Next \/ ManifestChange

SpecManifest == InitManifest /\ [][NextManifest]_vars

-----------------------------------------------------------------------------
(* Properties *)

\* the provider block does not switch telemetry off
EnabledInput == providerModel.Enabled # BoolValue(FALSE)

\* the handler of r's current operation has returned
Returned(r) == cur[r].op > 0 /\ pc[r] = "idle"

\* the handler of r's current operation decoded its request without error
Decoded(r) == cur[r].ran /\ "decode" \notin cur[r].diags

\* C1: when the provider block sets endpoint, every POST of every operation
\* goes to the provider-block endpoint, whatever MODTM_ENDPOINT and the
\* resource's endpoint are, and no other URL receives a request
C1_ProviderBlockEndpointWins ==
    ~IsNull(providerModel.Endpoint) =>
        /\ urlsHit \subseteq {providerModel.Endpoint.v}
        /\ \A r \in instances :
              (cur[r].ran /\ EnabledInput /\ providerModel.Endpoint.v # "")
                  => cur[r].req = providerModel.Endpoint.v

C1_Witness ==
    /\ providerModel.Endpoint = StringValue(ProviderUrl)
    /\ endpointEnv = EnvUrl
    /\ trail["r1"] = <<"create", "update", "delete">>
    /\ cur["r1"].data.Endpoint = StringValue(ResourceUrl)
    /\ cur["r1"].req = ProviderUrl
    /\ urlsHit = {ProviderUrl}

\* C2: with no endpoint in the provider block and MODTM_ENDPOINT non-empty,
\* every POST goes to the environment endpoint, also when the resource sets
\* its own endpoint, which receives no request
C2_EnvEndpointWins ==
    (IsNull(providerModel.Endpoint) /\ endpointEnv # "") =>
        /\ urlsHit \subseteq {endpointEnv}
        /\ \A r \in instances :
              (cur[r].ran /\ EnabledInput) => cur[r].req = endpointEnv

C2_Witness ==
    /\ IsNull(providerModel.Endpoint)
    /\ endpointEnv = EnvUrl
    /\ trail["r1"] = <<"create", "read", "delete">>
    /\ cur["r1"].data.Endpoint = StringValue(ResourceUrl)
    /\ cur["r1"].req = EnvUrl
    /\ urlsHit = {EnvUrl}

\* C3: with no endpoint in the provider block and MODTM_ENDPOINT empty, an
\* operation whose resource sets endpoint posts to the resource's endpoint
\* only: the resolver is not called, so the default endpoint gets no request
C3_ResourceEndpointOverDefault ==
    (IsNull(providerModel.Endpoint) /\ endpointEnv = "") =>
        \A r \in instances :
            (cur[r].ran /\ ~IsNull(cur[r].data.Endpoint)) =>
                /\ cur[r].req \in {"", cur[r].data.Endpoint.v}
                /\ (EnabledInput /\ cur[r].data.Endpoint.v # "")
                      => cur[r].req = cur[r].data.Endpoint.v
                /\ ~cur[r].called
                /\ cur[r].nreq <= 1

C3_Witness ==
    /\ IsNull(providerModel.Endpoint)
    /\ endpointEnv = ""
    /\ trail["r1"] = <<"create", "update", "delete">>
    /\ cur["r1"].data.Endpoint = StringValue(ResourceUrl)
    /\ cur["r1"].req = ResourceUrl
    /\ urlsHit = {ResourceUrl}
    /\ nGets = 0

\* the GET of the default-endpoint document returned a body to the resolver
FetchSucceeded == blobG = "sentC"

\* the resolver gave up on the document: an error, or its timer
FetchFailed == blobG = "sentErr" \/ (once = "done" /\ blobG \in {"inflight", "blockedC", "blockedErr"})

\* nothing sets an endpoint for r's current operation
NoEndpointSet(r) ==
    /\ IsNull(providerModel.Endpoint)
    /\ endpointEnv = ""
    /\ IsNull(cur[r].data.Endpoint)

\* C4: when neither the provider block nor MODTM_ENDPOINT nor the resource
\* sets an endpoint, the endpoint of every event is the body the GET of the
\* default-endpoint document returned, and the events are posted to it
C4_DefaultEndpointIsDocumentBody ==
    \A r \in instances :
        (cur[r].ran /\ NoEndpointSet(r)) =>
            /\ cur[r].req # "" => (FetchSucceeded /\ cur[r].req = blobBody)
            /\ (cur[r].got /\ FetchSucceeded) =>
                  /\ cur[r].ep = blobBody
                  /\ ~NewRequestFails(blobBody) => cur[r].req = blobBody

C4_Witness ==
    /\ NoEndpointSet("r1")
    /\ trail["r1"] = <<"create", "update", "delete">>
    /\ blobBody = DefaultUrl
    /\ cur["r1"].req = DefaultUrl
    /\ cur["r1"].outcome = "response"
    /\ urlsHit = {DefaultUrl}

\* C5: when no endpoint is set anywhere and the fetch of the default-endpoint
\* document fails (error or timeout), no operation attempts a POST, and each
\* one returns without an error diagnostic, its state set (removed by Delete)
C5_FailedFetchDisables ==
    \A r \in instances :
        (Decoded(r) /\ NoEndpointSet(r) /\ FetchFailed) =>
            /\ cur[r].nreq = 0
            /\ cur[r].req = ""
            /\ urlsHit \subseteq {ResourceUrl}
            /\ Returned(r)
            /\ cur[r].diags = {}
            /\ cur[r].wrote.set = (cur[r].event # "delete")
            /\ tfstate[r] = IF cur[r].event = "delete" THEN Absent ELSE Present(cur[r].data)

C5_Witness ==
    /\ NoEndpointSet("r1")
    /\ FetchFailed
    /\ blobG = "inflight"
    /\ trail["r1"] = <<"create", "update", "delete">>
    /\ Returned("r1")
    /\ Decoded("r1")
    /\ cur["r1"].got
    /\ urlsHit = {}

\* C6: the function given to once.Do, and with it the GET of the document,
\* runs at most once per provider instance; every call of the resolver
\* returns the memoized endpoint, the empty one after a failed fetch, which
\* is not retried
C6_ResolvedAtMostOnce ==
    /\ nBody <= 1
    /\ nGets <= nBody
    /\ (once = "fresh") = (nBody = 0)
    /\ FetchFailed => endpoint = ""
    /\ \A r \in instances : cur[r].got => (once = "done" /\ cur[r].ep = endpoint)

C6_Witness ==
    /\ FetchFailed
    /\ nGets = 1
    /\ trail["r1"] = <<"create", "update", "delete">>
    /\ cur["r1"].called
    /\ cur["r1"].got
    /\ cur["r1"].ep = ""
    /\ Returned("r1")

\* C7: of the operations that call the resolver before it has resolved,
\* one runs the resolution, the others wait until it has finished, and all
\* return the same endpoint
C7_ConcurrentCallersShareResolution ==
    /\ nBody <= 1
    /\ Cardinality({r \in instances : pc[r] = "fetchSelect"}) <= 1
    /\ \A r \in instances :
          /\ pc[r] = "onceWait" => (nBody = 1 /\ once \in {"running", "done"})
          /\ cur[r].got => (once = "done" /\ cur[r].ep = endpoint)
    /\ \A r1, r2 \in instances :
          (cur[r1].got /\ cur[r2].got) => cur[r1].ep = cur[r2].ep

C7_Witness ==
    /\ cur["r1"].got
    /\ cur["r2"].got
    /\ ~cur["r1"].waited
    /\ cur["r2"].waited
    /\ cur["r1"].ep = DefaultUrl
    /\ cur["r2"].ep = DefaultUrl
    /\ nBody = 1

\* C8: whatever the delivery comes to (a response, a connection error, a
\* request that cannot be composed, a timeout), the operation gets no
\* diagnostic from it and sets the state it decoded and completed before
\* sendTags
C8_DeliveryOutcomeNeverSurfaces ==
    \A r \in instances :
        (cur[r].ran /\ Returned(r)) =>
            /\ cur[r].diags \subseteq {"decode"}
            /\ cur[r].wrote =
                  IF cur[r].event = "delete" THEN NotWritten ELSE Written(cur[r].data)
            /\ cur[r].diags = {} =>
                  tfstate[r] = IF cur[r].event = "delete" THEN Absent
                               ELSE Present(cur[r].data)

C8_Witness ==
    /\ {errors[i].kind : i \in 1..Len(errors)} = {"compose", "timeout", "error"}
    /\ trail["r1"] = <<"create", "update", "delete">>
    /\ cur["r1"].outcome = "error"
    /\ Returned("r1")
    /\ cur["r1"].diags = {}
    /\ tfstate["r1"] = Absent

RECURSIVE IsSubseq(_, _)
\* s is t with some of its elements left out
IsSubseq(s, t) ==
    IF s = <<>> THEN TRUE
    ELSE IF t = <<>> THEN FALSE
    ELSE IF Head(s) = Head(t) THEN IsSubseq(Tail(s), Tail(t))
    ELSE IsSubseq(s, Tail(t))

IsTimeoutOf(r, e) == e.kind = "timeout" /\ e.res = r

\* the events named by the timeout entries of r's operations, in log order
TimeoutEvents(r) ==
    LET entries == SelectSeq(errors, LAMBDA e : IsTimeoutOf(r, e))
    IN  [i \in 1..Len(entries) |-> entries[i].event]

\* C9: an operation whose delivery timer fires writes the error entry
\* "timeout on <event>" with its own event and returns without a diagnostic,
\* its state set; the timeout entries follow the order of the operations
\* (create, read, delete over an apply and destroy)
C9_TimeoutLoggedPerOperation ==
    \A r \in instances :
        /\ IsSubseq(TimeoutEvents(r), trail[r])
        /\ cur[r].outcome = "timeout" =>
              /\ Returned(r)
              /\ TimeoutEvents(r) # <<>>
              /\ TimeoutEvents(r)[Len(TimeoutEvents(r))] = cur[r].event
              /\ cur[r].diags \subseteq {"decode"}
              /\ cur[r].wrote.set = (cur[r].event # "delete")

C9_Witness ==
    /\ trail["r1"] = <<"create", "read", "delete">>
    /\ TimeoutEvents("r1") = <<"create", "read", "delete">>
    /\ cur["r1"].outcome = "timeout"
    /\ cur["r1"].diags = {}
    /\ tfstate["r1"] = Absent

\* C10: telemetry delays one operation by at most 5 seconds in total, also
\* the operation that first fetches the default-endpoint document
C10_DelayAtMostFiveSeconds ==
    \A r \in instances : cur[r].delay <= Timeout

\* calls of sendPostRequest by r's current operation: the requests handed to
\* client.Do and the one that http.NewRequest refused
Attempts(r) == cur[r].nreq + (IF cur[r].outcome = "compose" THEN 1 ELSE 0)

\* C11: an operation hands at most one request to client.Do and starts at
\* most one goroutine; after an error, a timeout or a response it returns
\* with that single request; with telemetry enabled and a non-empty endpoint
\* sendPostRequest is called exactly once, and never otherwise
C11_OnePostPerOperation ==
    \A r \in instances :
        /\ cur[r].nreq <= 1
        /\ Attempts(r) <= 1
        /\ Cardinality({g \in postG : g.res = r /\ g.op = cur[r].op}) <= 1
        /\ (cur[r].ran /\ providerCfg.enabled /\ cur[r].ep # "") =>
              /\ Attempts(r) = 1
              /\ ~NewRequestFails(cur[r].ep) => (cur[r].nreq = 1 /\ cur[r].req = cur[r].ep)
        /\ cur[r].outcome \in {"response", "error", "timeout"} =>
              (cur[r].nreq = 1 /\ Returned(r))
        /\ (~providerCfg.enabled \/ cur[r].ep = "") => Attempts(r) = 0

C11_Witness ==
    /\ trail["r1"] = <<"create", "update", "delete">>
    /\ Len(errors) = 3
    /\ errors[1].kind = "error"
    /\ errors[2].kind = "timeout"
    /\ errors[3].kind = "error"
    /\ cur["r1"].outcome = "error"
    /\ cur["r1"].nreq = 1
    /\ Returned("r1")

\* C12: with enabled = false in the provider block no request of any kind is
\* made (no POST, no GET of the document, no resolution), whichever endpoint
\* is configured, and every operation returns with its state set; with
\* enabled not set telemetry is on, and operations post to the provider-block
\* or environment endpoint
C12_DisabledSendsNothing ==
    /\ providerModel.Enabled = BoolValue(FALSE) =>
          /\ urlsHit = {}
          /\ postG = {}
          /\ nGets = 0
          /\ nBody = 0
          /\ \A r \in instances :
                /\ Attempts(r) = 0
                /\ cur[r].payload = <<>>
                /\ cur[r].ran =>
                      /\ Returned(r)
                      /\ cur[r].wrote.set = (cur[r].event # "delete")
                      /\ cur[r].diags = {} =>
                            tfstate[r] = IF cur[r].event = "delete" THEN Absent
                                         ELSE Present(cur[r].data)
    /\ (IsNull(providerModel.Enabled) /\ configured) =>
          /\ providerCfg.enabled
          /\ \A r \in instances :
                cur[r].ran =>
                    /\ providerModel.Endpoint = StringValue(ProviderUrl)
                          => cur[r].req = ProviderUrl
                    /\ (IsNull(providerModel.Endpoint) /\ endpointEnv # "")
                          => cur[r].req = endpointEnv

C12_Witness ==
    /\ providerModel.Enabled = BoolValue(FALSE)
    /\ providerModel.Endpoint = StringValue(ProviderUrl)
    /\ endpointEnv = EnvUrl
    /\ trail["r1"] = <<"create", "update", "delete">>
    /\ cur["r1"].ran
    /\ cur["r1"].data.Endpoint = StringValue(ResourceUrl)
    /\ Returned("r1")
    /\ tfstate["r1"] = Absent
    /\ urlsHit = {}

\* r's handler has just been entered and got past decoding
Entered(r) == cur'[r].op # cur[r].op /\ cur'[r].ran /\ cur'[r].diags = {}

\* the resource_id of the event r's operation composed, "" when it composed none
EventId(c) == IF c.payload = <<>> THEN "" ELSE c.payload["resource_id"]

TagKeys(t) == DOMAIN Elements(t)

\* validation refused the configuration r's last request carried
Refused(r) == cur[r].op > 0 /\ ~cur[r].ran /\ "validate" \in cur[r].diags

C15_ReservedKeysRejected ==
    \A r \in instances :
        cur[r].ran => TagKeys(cur[r].data.Tags) \cap {"event", "source", "version"} = {}

\* the four keys sendTags sets itself
ComputedKeys == {"event", "resource_id", "source", "version"}

\* a map without the keys sendTags sets itself
Rest(m) == [k \in DOMAIN m \ ComputedKeys |-> m[k]]

\* the tags as the user wrote them, as a map of strings
Configured(t) == [k \in TagKeys(t) |-> ValueString(Elements(t)[k])]

\* C16: the payload of an event without the four computed keys is the tags
\* map the operation was configured with
C16_PayloadRestEqualsTags ==
    \A r \in instances :
        (cur[r].ran /\ cur[r].diags = {} /\ cur[r].payload # <<>>) =>
            Rest(cur[r].payload) = Configured(cur[r].data.Tags)

\* C17: nothing but the user's tags and the instance identifier is sent: the
\* keys of a payload are tag keys or resource_id
C17_OnlyTagsAndIdSent ==
    \A r \in instances :
        cur[r].payload # <<>> =>
            DOMAIN cur[r].payload \subseteq TagKeys(cur[r].data.Tags) \cup {"resource_id"}

\* module paths for which the resource finds no manifest entry
UnresolvedPaths ==
    {NullPath, PathValue(<<".terraform", "modules", "nonexistent">>), PathValue(<<"elsewhere">>)}

EntriesAt(path) == {i \in 1..Len(ModulesJson) : ModulesJson[i].Dir = path}

\* the module path of r's current operation, <<>> when it has none
PathOf(c) == IF IsNull(c.data.ModulePath) THEN <<>> ELSE c.data.ModulePath.v

\* the lookup answers with the Source and Version of the entry listed at path
AnswersEntry(data, path) ==
    \A i \in EntriesAt(path) :
        /\ data.ModuleSource = StringValue(ModulesJson[i].Source)
        /\ data.ModuleVersion = StringValue(ModulesJson[i].Version)

\* C19: a lookup for a module_path that is the Dir of a manifest entry yields
\* that entry's Source and Version, through the resource, the data source
\* and the functions alike; a path no entry lists yields null for both,
\* without an error
C19_LookupByDir ==
    /\ \A r \in instances :
          (cur[r].ran /\ cur[r].diags = {} /\ cur[r].event # "delete") =>
              IF EntriesAt(PathOf(cur[r])) # {}
              THEN AnswersEntry(cur[r].data, PathOf(cur[r]))
              ELSE IsNull(cur[r].data.ModuleSource) /\ IsNull(cur[r].data.ModuleVersion)
    /\ (lookup.via # "none" /\ lookup.diags = {}) =>
          IF EntriesAt(lookup.data.ModulePath.v) # {}
          THEN /\ AnswersEntry(lookup.data, lookup.data.ModulePath.v)
               /\ \A i \in EntriesAt(lookup.data.ModulePath.v) :
                     /\ lookup.via = "module_source" => lookup.result = ModulesJson[i].Source
                     /\ lookup.via = "module_version" => lookup.result = ModulesJson[i].Version
          ELSE IsNull(lookup.data.ModuleSource) /\ IsNull(lookup.data.ModuleVersion)

\* C20: a module_path that is the Dir of a nested local submodule resolves to
\* that entry's own Source and an empty version, not to the enclosing module;
\* the Dir of a registry submodule resolves to its Source and Version
C20_SubmoduleOwnEntry ==
    LET local == <<".terraform", "modules", "kv", "modules", "key">>
        registry == <<".terraform", "modules", "keys", "modules", "key">>
        resolves(data) ==
            /\ data.ModulePath = PathValue(local) =>
                  /\ data.ModuleSource = StringValue("./modules/key")
                  /\ data.ModuleVersion = StringValue("")
            /\ data.ModulePath = PathValue(registry) =>
                  /\ data.ModuleSource = StringValue(
                        "registry.terraform.io/Azure/avm-res-keyvault-vault/azurerm//modules/key")
                  /\ data.ModuleVersion = StringValue("0.6.1")
    IN  /\ \A r \in instances :
              (cur[r].ran /\ cur[r].diags = {} /\ cur[r].event # "delete") => resolves(cur[r].data)
        /\ (lookup.via # "none" /\ lookup.diags = {}) => resolves(lookup.data)

\* the lookup module_path asks for fails on the manifest file: the file is
\* missing, it is not JSON, the path does not lie under .terraform/modules,
\* or no entry has the key the path names (TF_DATA_DIR unset)
LookupFails(path, file) ==
    /\ ~IsNull(path)
    /\ \/ ~file.exists
       \/ ~file.json
       \/ ~(Len(path.v) > 2 /\ path.v[1] = ".terraform" /\ path.v[2] = "modules")
       \/ \A i \in 1..Len(file.Modules) : file.Modules[i].Key # <<path.v[3]>>

\* r's handler returns in this step
Returns(r) == pc'[r] = "idle" /\ (pc[r] # "idle" \/ cur'[r].op # cur[r].op) /\ cur'[r].ran

\* C21: a create, read or update whose manifest lookup fails (file missing,
\* file not JSON, no entry with the key, no key derivable from the path) has
\* module_source and module_version null, gets no error diagnostic, composes
\* its event as any other operation does, and completes: the state is set
\* and the event was posted wherever an endpoint is known
C21_LookupFailureIsSilent ==
    [][\A r \in instances :
          /\ (cur'[r].op # cur[r].op /\ cur'[r].ran /\ cur'[r].event # "delete"
                /\ LookupFails(cur'[r].data.ModulePath, modulesFile)) =>
                /\ IsNull(cur'[r].data.ModuleSource)
                /\ IsNull(cur'[r].data.ModuleVersion)
                /\ cur'[r].diags = {}
                /\ providerCfg.enabled =>
                      /\ cur'[r].payload # <<>>
                      /\ cur'[r].payload["event"] = cur'[r].event
          /\ (Returns(r) /\ cur'[r].event # "delete" /\ ~IsNull(cur'[r].data.ModulePath)
                /\ IsNull(cur'[r].data.ModuleSource)) =>
                /\ cur'[r].diags = {}
                /\ tfstate'[r] = Present(cur'[r].data)
                /\ (providerCfg.enabled /\ cur'[r].ep # "" /\ ~NewRequestFails(cur'[r].ep)) =>
                      /\ cur'[r].nreq = 1
                      /\ cur'[r].ep \in urlsHit'
      ]_vars

C21_Witness ==
    /\ modulesFile = BrokenFile
    /\ trail["r1"] = <<"create", "read">>
    /\ Returned("r1")
    /\ cur["r1"].data.ModulePath = PathValue(<<".terraform", "modules", "kv">>)
    /\ IsNull(cur["r1"].data.ModuleSource)
    /\ cur["r1"].diags = {}
    /\ cur["r1"].outcome = "response"
    /\ tfstate["r1"] = Present(cur["r1"].data)

\* the segments of <TF_DATA_DIR or .terraform>/modules
ModulesPrefix == (IF tfDataDir.set THEN tfDataDir.v ELSE <<".terraform">>) \o <<"modules">>

\* the path has all segments of the prefix, in order, and one more
LiesUnder(path, prefix) ==
    /\ Len(path) > Len(prefix)
    /\ SubSeq(path, 1, Len(prefix)) = prefix

FirstEntry(key, file) ==
    file.Modules[CHOOSE i \in 1..Len(file.Modules) :
                    /\ file.Modules[i].Key = key
                    /\ \A j \in 1..(i - 1) : file.Modules[j].Key # key]

\* what module_path and the manifest file determine for the two attributes
Determined(path, file) ==
    IF IsNull(path) \/ LookupFails(path, file)
    THEN [ModuleSource |-> NullString, ModuleVersion |-> NullString]
    ELSE [ModuleSource |-> StringValue(FirstEntry(<<path.v[3]>>, file).Source),
          ModuleVersion |-> StringValue(FirstEntry(<<path.v[3]>>, file).Version)]

\* C23: a create, read or update works with the module_source and
\* module_version that its module_path and the manifest as it is during the
\* operation determine (null when module_path is not set or the lookup finds
\* nothing), whatever the state held before, and sets exactly these in state
C23_SourceVersionFromCurrentLookup ==
    [][\A r \in instances :
          /\ (cur'[r].op # cur[r].op /\ cur'[r].ran /\ cur'[r].event # "delete") =>
                /\ cur'[r].data.ModuleSource
                      = Determined(cur'[r].data.ModulePath, modulesFile).ModuleSource
                /\ cur'[r].data.ModuleVersion
                      = Determined(cur'[r].data.ModulePath, modulesFile).ModuleVersion
                /\ IsNull(cur'[r].data.ModulePath) =>
                      (IsNull(cur'[r].data.ModuleSource) /\ IsNull(cur'[r].data.ModuleVersion))
          /\ (cur'[r].op = cur[r].op /\ cur[r].ran) =>
                /\ cur'[r].data.ModuleSource = cur[r].data.ModuleSource
                /\ cur'[r].data.ModuleVersion = cur[r].data.ModuleVersion
          /\ (Returns(r) /\ cur'[r].event # "delete" /\ cur'[r].diags = {}) =>
                /\ tfstate'[r].present
                /\ tfstate'[r].data.ModuleSource = cur'[r].data.ModuleSource
                /\ tfstate'[r].data.ModuleVersion = cur'[r].data.ModuleVersion
      ]_vars

\* a read over a missing manifest is under way: the state still holds the
\* source an earlier operation found, the read works with null
C23_Witness ==
    /\ modulesFile = NoFile
    /\ pc["r1"] = "postSelect"
    /\ cur["r1"].event = "read"
    /\ cur["r1"].data.ModulePath = PathValue(<<".terraform", "modules", "kv">>)
    /\ tfstate["r1"].present
    /\ tfstate["r1"].data.ModuleSource
          = StringValue("registry.terraform.io/Azure/avm-res-keyvault-vault/azurerm")
    /\ IsNull(cur["r1"].data.ModuleSource)
    /\ IsNull(cur["r1"].data.ModuleVersion)

\* the source matches one of the expressions the provider compiled
Allowed(source) ==
    \E i \in 1..Len(providerCfg.moduleSourceRegex) :
        MatchString(providerCfg.moduleSourceRegex[i], source)

\* C24: an event is posted only for a module whose source matches one of the
\* expressions of module_source_regex; without the attribute every source is
\* allowed
C24_OnlyAllowedSourcesSent ==
    \A r \in instances :
        /\ (cur[r].ran /\ cur[r].nreq > 0 /\ ~IsNull(cur[r].data.ModuleSource))
              => Allowed(cur[r].data.ModuleSource.v)
        /\ (configured /\ IsNull(providerModel.ModuleSourceRegex))
              => \A src \in ModuleSources : Allowed(src)

LifecycleEvents == {"create", "read", "update", "delete"}

StuckPosts == {g \in postG : g.st \in {"blockedC", "blockedErr"}}
StuckFetch == blobG \in {"blockedC", "blockedErr"}

\* C26: a goroutine the caller has abandoned through the timeout branch runs
\* to its end: neither the goroutine of sendPostRequest nor the one of
\* readEndpointFromBlob is ever left blocked on its result channel
C26_AbandonedTasksTerminate == StuckPosts = {} /\ ~StuckFetch

\* r's new operation has no use for the provider's endpoint: telemetry is
\* switched off, or neither the provider block nor MODTM_ENDPOINT names an
\* endpoint and the resource names its own
NeedsNoResolver(c) ==
    \/ providerModel.Enabled = BoolValue(FALSE)
    \/ /\ IsNull(providerModel.Endpoint)
       /\ endpointEnv = ""
       /\ ~IsNull(c.data.Endpoint)

\* C27: an operation that has no use for the provider's endpoint does not
\* call the resolver: the function under once.Do does not run, no GET of the
\* default-endpoint document is started, and the memoized endpoint stays as
\* it was
C27_ResolverOnlyWhenNeeded ==
    [][\A r \in instances :
          (cur'[r].op # cur[r].op /\ cur'[r].ran /\ NeedsNoResolver(cur'[r])) =>
              /\ ~cur'[r].called
              /\ ~cur'[r].got
              /\ nBody' = nBody
              /\ nGets' = nGets
              /\ once' = once
              /\ endpoint' = endpoint
              /\ blobG' = blobG
              /\ pc'[r] \notin {"fetchSelect", "onceWait"}
      ]_vars

\* an operation on a resource with its own endpoint has posted there, and the
\* resolver has not run
C27_Witness ==
    /\ providerModel.Endpoint = NullString
    /\ endpointEnv = ""
    /\ trail["r1"] = <<"create", "update">>
    /\ cur["r1"].data.Endpoint = StringValue(ResourceUrl)
    /\ cur["r1"].req = ResourceUrl
    /\ cur["r1"].outcome = "response"
    /\ once = "fresh"
    /\ nBody = 0
    /\ nGets = 0

\* C28: an operation whose request could not be decoded returns at once: it
\* composes no event, attempts no POST and hands no state to the host
C28_DecodeErrorReturnsAtOnce ==
    \A r \in instances :
        "decode" \in cur[r].diags =>
            /\ ~cur[r].ran
            /\ pc[r] = "idle"
            /\ cur[r].payload = <<>>
            /\ cur[r].nreq = 0
            /\ cur[r].wrote = NotWritten

\* C29: an endpoint set to the empty string ends the search where it stands.
\* With endpoint = "" in the provider block no operation posts anything and
\* neither MODTM_ENDPOINT nor the default-endpoint document is turned to;
\* with no provider endpoint, no MODTM_ENDPOINT and endpoint = "" on the
\* resource, the operation posts nothing and does not call the resolver
C29_EmptyEndpointStopsChain ==
    /\ providerModel.Endpoint = StringValue("") =>
          /\ urlsHit = {}
          /\ postG = {}
          /\ nGets = 0
          /\ blobG = "none"
          /\ endpoint = ""
          /\ \A r \in instances :
                /\ cur[r].nreq = 0
                /\ cur[r].req = ""
                /\ cur[r].ep = ""
                /\ pc[r] = "idle"
    /\ \A r \in instances :
          (/\ IsNull(providerModel.Endpoint)
           /\ endpointEnv = ""
           /\ cur[r].ran
           /\ cur[r].data.Endpoint = StringValue("")) =>
              /\ cur[r].nreq = 0
              /\ cur[r].req = ""
              /\ cur[r].ep = ""
              /\ ~cur[r].called
              /\ pc[r] = "idle"

\* a create under endpoint = "" in the provider block and MODTM_ENDPOINT set
\* has resolved the endpoint to "" and returned without a POST
C29_Witness ==
    /\ providerModel.Endpoint = StringValue("")
    /\ EnabledInput
    /\ endpointEnv = EnvUrl
    /\ trail["r1"] = <<"create">>
    /\ Returned("r1")
    /\ cur["r1"].data.Endpoint = StringValue(ResourceUrl)
    /\ cur["r1"].got
    /\ once = "done"
    /\ cur["r1"].nreq = 0
    /\ tfstate["r1"] = Present(cur["r1"].data)
====
